---- MODULE Spec2Model ----
(***************************************************************************)
(* On-call rota engine of streamlitrota.py: class Doctor and class         *)
(* Schedule (generate_schedule, the weekday / weekend assignment, the      *)
(* availability predicates, the fairness selector and _balance_schedule).  *)
(*                                                                         *)
(* Dates are day numbers; day 0 is a Monday, so date.weekday() is d % 7    *)
(* and Friday / Saturday are 4 and 5.  Doctors are positions 1..n of the   *)
(* roster list self.doctors.                                               *)
(***************************************************************************)
EXTENDS Integers, Sequences, FiniteSets

VARIABLES
    doctors,                    \* self.doctors: <<[team, vacation_days, mobile_team_days]>>
    shifts,                     \* Doctor.shifts, per doctor: a list of dates
    last_shift,                 \* Doctor.last_shift, per doctor: a date or None
    start_date,                 \* self.start_date
    end_date,                   \* self.end_date
    max_oncalls_per_week,       \* self.max_oncalls_per_week
    min_days_between_oncalls,   \* self.min_days_between_oncalls
    schedule,                   \* self.schedule: date -> list of doctors
    current_date,               \* the local current_date of generate_schedule
    pc,                         \* where the call of generate_schedule stands
    error_date,                 \* the date named by the ValueError, or None
    available_at,               \* per date, the candidates the selector was given
    passes,                     \* passes of _balance_schedule completed
    oncall_counts,              \* the local oncall_counts of the running pass
    bal_date,                   \* the date the running pass stands at
    bal_i,                      \* the slot index the running pass stands at
    swaps,                      \* the swaps made by _balance_schedule, newest last
    stats                       \* the mappings get_doctor_statistics has returned

vars == <<doctors, shifts, last_shift, start_date, end_date, max_oncalls_per_week,
          min_days_between_oncalls, schedule, current_date, pc, error_date,
          available_at, passes, oncall_counts, bal_date, bal_i, swaps, stats>>

params == <<doctors, start_date, end_date, max_oncalls_per_week, min_days_between_oncalls>>

(***************************************************************************)
(* Bounds of the model and constants of the program.                       *)
(***************************************************************************)
MaxDoctors == 4
MaxDays == 5
MaxAbsent == 2
LongDoctors == 6
LongDays == 12
LongAbsent == 3
MaxReads == 2

None == -1
weekend_cooldown == 14
BalancePasses == 3
Teams == {"Team A", "Team B"}

(***************************************************************************)
(* Helpers on lists and dates.                                             *)
(***************************************************************************)
Range(s) == {s[k] : k \in DOMAIN s}

Max(S) == CHOOSE x \in S : \A y \in S : y <= x

IsWeekend(d) == (d % 7) \in {4, 5}

\* mutant: the list is left as it is
RemoveFirstOmitted(s, x) == s

\* list.remove(x): drops the first occurrence of x
RemoveFirst(s, x) ==
    LET k == CHOOSE j \in DOMAIN s : s[j] = x /\ \A m \in 1..(j - 1) : s[m] # x
    IN  [j \in 1..(Len(s) - 1) |-> IF j < k THEN s[j] ELSE s[j + 1]]

\* the number of entries of the list s that satisfy Test
Count(s, Test(_)) == Cardinality({k \in DOMAIN s : Test(s[k])})

Roster == DOMAIN doctors

(***************************************************************************)
(* Availability filter.                                                    *)
(***************************************************************************)
\* mutant: the gap test lets the boundary through
GapOkInclusive(days_since_last_shift) == days_since_last_shift >= min_days_between_oncalls

GapOk(days_since_last_shift) == days_since_last_shift > min_days_between_oncalls

\* mutant: the weekly cap lets one shift too many through
CapOkInclusive(shifts_this_week) == shifts_this_week <= max_oncalls_per_week

CapOk(shifts_this_week) == shifts_this_week < max_oncalls_per_week

\* mutant: the mobile rotation days are not looked at
_is_available_ignoring_rotation(d, date) ==
    IF date \in doctors[d].vacation_days THEN FALSE
    ELSE IF last_shift[d] = None THEN TRUE
    ELSE LET days_since_last_shift == date - last_shift[d]
             InWeek(shift) == 0 <= date - shift /\ date - shift < 7
             shifts_this_week == Count(shifts[d], InWeek)
         IN  GapOk(days_since_last_shift) /\ CapOk(shifts_this_week)

_is_available(d, date) ==
    IF date \in doctors[d].vacation_days \/ date \in doctors[d].mobile_team_days THEN FALSE
    ELSE IF last_shift[d] = None THEN TRUE
    ELSE LET days_since_last_shift == date - last_shift[d]
             InWeek(shift) == 0 <= date - shift /\ date - shift < 7
             shifts_this_week == Count(shifts[d], InWeek)
         IN  GapOk(days_since_last_shift) /\ CapOk(shifts_this_week)

_get_available_doctors(date) == {d \in Roster : _is_available(d, date)}

_is_weekend_eligible(d, date) ==
    LET weekend_shifts == {s \in Range(shifts[d]) : IsWeekend(s)}
    IN  IF weekend_shifts = {} THEN TRUE
        ELSE date - Max(weekend_shifts) >= weekend_cooldown

(***************************************************************************)
(* Fairness selector.  Scores are counted in tenths to stay integral: the  *)
(* code's score is -10*total - 5*context + 0.5*days, or +inf for a doctor  *)
(* whose last_shift is None.  The sort key is the score plus               *)
(* random.random() * 0.1, a jitter in [0, 0.1): of two finite scores the   *)
(* higher is sure to sort first when it is higher by the span of the       *)
(* jitter or more, and otherwise either may; inf + jitter = inf, and the   *)
(* stable sort keeps infinite scores in list order.                        *)
(***************************************************************************)
ScoreIsInf(d) == last_shift[d] = None

\* the score, in tenths
fairness_score(d, date) ==
    LET total_oncalls == Len(shifts[d])
        weekend_oncalls == Count(shifts[d], IsWeekend)
        weekday_oncalls == total_oncalls - weekend_oncalls
        days_since_last_shift == date - last_shift[d]
        context == IF IsWeekend(date) THEN weekend_oncalls ELSE weekday_oncalls
    IN  (0 - 100) * total_oncalls - 50 * context + 5 * days_since_last_shift

\* random.random() * 0.1 is below 0.1: one tenth
jitter_span == 1

\* mutant: the jitter is random.random() * 10
BeforeWideJitter(a, b, date) ==
    IF ScoreIsInf(a) THEN (~ScoreIsInf(b)) \/ a < b
    ELSE (~ScoreIsInf(b)) /\ fairness_score(a, date) - fairness_score(b, date) >= 100

\* a is before b in every outcome of the sort
Before(a, b, date) ==
    IF ScoreIsInf(a) THEN (~ScoreIsInf(b)) \/ a < b
    ELSE (~ScoreIsInf(b)) /\ fairness_score(a, date) - fairness_score(b, date) >= jitter_span

\* the members of S that some outcome of the sort puts first among S
Top(S, date) == {a \in S : \A b \in S \ {a} : ~Before(b, a, date)}

\* mutant: the slice that drops the first doctor is forgotten
RestWithFirst(S, first_doctor) == S

\* sorted_doctors[1:]
Rest(S, first_doctor) == S \ {first_doctor}

\* mutant: the second doctor is the next of the list, whatever the team
SecondDoctorsAnyTeam(S, first_doctor, date) ==
    LET rest == Rest(S, first_doctor)
    IN  IF rest = {} THEN {<<>>}
        ELSE {<<d>> : d \in Top(rest, date)}

\* what follows first_doctor in the list returned for count > 1
SecondDoctors(S, first_doctor, date) ==
    LET rest == Rest(S, first_doctor)
        other_team_doctors == {d \in rest : doctors[d].team # doctors[first_doctor].team}
    IN  IF other_team_doctors # {} THEN {<<d>> : d \in Top(other_team_doctors, date)}
        ELSE IF rest = {} THEN {<<>>}
        ELSE {<<d>> : d \in Top(rest, date)}

\* the lists _select_doctors can return for the candidates S
_select_doctors(S, count, date) ==
    IF count > 1
    THEN UNION {{<<first_doctor>> \o second : second \in SecondDoctors(S, first_doctor, date)} :
                first_doctor \in Top(S, date)}
    ELSE {<<first_doctor>> : first_doctor \in Top(S, date)}

(***************************************************************************)
(* Construction: Doctor.__init__ and Schedule.__init__.                    *)
(***************************************************************************)
\* the periods of absence within the range: from its first day up to some day,
\* or from some day to its last day
Absences(lo, hi) == {lo..a : a \in lo..hi} \cup {a..hi : a \in lo..hi}

\* a roster of n doctors, the first t of them in Team A and the others in
\* Team B; the doctors in who are away on the days in days, entered on the
\* vacation form or on the mobile rotation form
RosterOf(n, t, who, days, form) ==
    [k \in 1..n |->
        [team |-> IF k <= t THEN "Team A" ELSE "Team B",
         vacation_days |-> IF k \in who /\ form = "vacation" THEN days ELSE {},
         mobile_team_days |-> IF k \in who /\ form = "rotation" THEN days ELSE {}]]

\* an absence from the first day of the range on is a spell on the mobile
\* rotation, a later one is a vacation
FormOf(days, lo) == IF lo \in days THEN "rotation" ELSE "vacation"

\* the rosters of a size in sizes with a number in absent of doctors away;
\* Team A has the first doctor, the first two, or all of them
Rosters(lo, hi, sizes, absent) ==
    UNION {UNION {(IF 0 \in absent THEN {RosterOf(n, t, {}, {}, "vacation")} ELSE {}) \cup
                  {RosterOf(n, t, a[1], a[2], FormOf(a[2], lo)) :
                      a \in {w \in SUBSET (1..n) : w # {} /\ Cardinality(w) \in absent}
                            \X Absences(lo, hi)} :
                  t \in (IF n = 0 THEN {0} ELSE {1, 2, n} \cap (1..n))} :
           n \in sizes}

\* the settings of the two number inputs that differ in effect on short ranges
Settings == {<<1, 1>>, <<1, 2>>, <<1, 3>>, <<2, 2>>}

Fresh ==
    /\ shifts = [d \in Roster |-> <<>>]
    /\ last_shift = [d \in Roster |-> None]
    /\ schedule = <<>>
    /\ current_date = start_date
    /\ pc = "constructed"
    /\ error_date = None
    /\ available_at = <<>>
    /\ passes = 0
    /\ oncall_counts = <<>>
    /\ bal_date = None
    /\ bal_i = 0
    /\ swaps = <<>>
    /\ stats = <<>>

\* the parameters the input widgets let through
Init ==
    /\ start_date \in 0..6
    /\ end_date \in start_date..(start_date + MaxDays - 1)
    /\ \E setting \in Settings :
          /\ min_days_between_oncalls = setting[1]
          /\ max_oncalls_per_week = setting[2]
    /\ doctors \in Rosters(start_date, end_date, 0..MaxDoctors, 0..MaxAbsent)
    /\ Fresh

\* a larger roster over a range that starts on a Friday or a Saturday and holds
\* two weekends
InitLong ==
    /\ start_date \in {4, 5}
    /\ end_date = start_date + LongDays - 1
    /\ min_days_between_oncalls = 1
    /\ max_oncalls_per_week = 3
    /\ doctors \in Rosters(start_date, end_date, {LongDoctors}, {LongAbsent})
    /\ Fresh

\* what Schedule.__init__ takes and the input widgets never send: an end
\* before the start, a gap or a cap that is not positive
InvalidSettings == {<<0, 3>>, <<1, 0>>}

InitInvalid ==
    /\ start_date \in 0..6
    /\ end_date \in (start_date - 1)..(start_date + MaxDays - 1)
    /\ \E setting \in Settings \cup InvalidSettings :
          /\ min_days_between_oncalls = setting[1]
          /\ max_oncalls_per_week = setting[2]
          /\ end_date < start_date \/ setting \in InvalidSettings
    /\ doctors \in Rosters(start_date, end_date, 0..MaxDoctors, 0..MaxAbsent)
    /\ Fresh

(***************************************************************************)
(* generate_schedule: the reset and the day loop.                          *)
(***************************************************************************)
\* mutant: the loop stops one day early
LoopRunsStrict(date) == date < end_date

\* while current_date <= self.end_date
LoopRuns(date) == date <= end_date

\* mutant: reset() empties the history and leaves last_shift as it was
ResetKeepingLastShift ==
    /\ pc = "constructed"
    /\ shifts' = [d \in Roster |-> <<>>]
    /\ current_date' = start_date
    /\ pc' = "loop"
    /\ UNCHANGED <<params, last_shift, schedule, error_date, available_at, passes,
                   oncall_counts, bal_date, bal_i, swaps, stats>>

\* for doctor in self.doctors: doctor.reset(); current_date = self.start_date
Reset ==
    /\ pc = "constructed"
    /\ shifts' = [d \in Roster |-> <<>>]
    /\ last_shift' = [d \in Roster |-> None]
    /\ current_date' = start_date
    /\ pc' = "loop"
    /\ UNCHANGED <<params, schedule, error_date, available_at, passes, oncall_counts,
                   bal_date, bal_i, swaps, stats>>

\* mutant: last_shift is set for every candidate of the day
CommitMarkingCandidates(date, available_doctors, selected_doctors) ==
    /\ schedule' = [d \in DOMAIN schedule \cup {date} |->
                      IF d = date THEN selected_doctors ELSE schedule[d]]
    /\ shifts' = [d \in Roster |->
                    IF d \in Range(selected_doctors) THEN Append(shifts[d], date)
                    ELSE shifts[d]]
    /\ last_shift' = [d \in Roster |->
                        IF d \in available_doctors THEN date ELSE last_shift[d]]
    /\ available_at' = [d \in DOMAIN available_at \cup {date} |->
                          IF d = date THEN available_doctors ELSE available_at[d]]
    /\ current_date' = date + 1
    /\ UNCHANGED <<params, pc, error_date, passes, oncall_counts, bal_date, bal_i, swaps,
                   stats>>

\* the commit of the selected doctors for date
Commit(date, available_doctors, selected_doctors) ==
    /\ schedule' = [d \in DOMAIN schedule \cup {date} |->
                      IF d = date THEN selected_doctors ELSE schedule[d]]
    /\ shifts' = [d \in Roster |->
                    IF d \in Range(selected_doctors) THEN Append(shifts[d], date)
                    ELSE shifts[d]]
    /\ last_shift' = [d \in Roster |->
                        IF d \in Range(selected_doctors) THEN date ELSE last_shift[d]]
    /\ available_at' = [d \in DOMAIN available_at \cup {date} |->
                          IF d = date THEN available_doctors ELSE available_at[d]]
    /\ current_date' = date + 1
    /\ UNCHANGED <<params, pc, error_date, passes, oncall_counts, bal_date, bal_i, swaps,
                   stats>>

Raise(date) ==
    /\ pc' = "ValueError"
    /\ error_date' = date
    /\ UNCHANGED <<params, shifts, last_shift, schedule, current_date, available_at,
                   passes, oncall_counts, bal_date, bal_i, swaps, stats>>

WeekendPool(date) == {d \in _get_available_doctors(date) : _is_weekend_eligible(d, date)}

\* mutant: one candidate is taken to be enough for a weekend day
TooFewForWeekendBelowOne(available_doctors) == Cardinality(available_doctors) < 1

\* len(available_doctors) < 2
TooFewForWeekend(available_doctors) == Cardinality(available_doctors) < 2

_assign_weekend_oncall ==
    /\ pc = "loop"
    /\ LoopRuns(current_date)
    /\ IsWeekend(current_date)
    /\ LET available_doctors == WeekendPool(current_date)
       IN  IF TooFewForWeekend(available_doctors)
           THEN Raise(current_date)
           ELSE \E selected_doctors \in _select_doctors(available_doctors, 2, current_date) :
                    Commit(current_date, available_doctors, selected_doctors)

_assign_weekday_oncall ==
    /\ pc = "loop"
    /\ LoopRuns(current_date)
    /\ ~IsWeekend(current_date)
    /\ LET available_doctors == _get_available_doctors(current_date)
       IN  IF available_doctors = {}
           THEN Raise(current_date)
           ELSE \E selected_doctors \in _select_doctors(available_doctors, 1, current_date) :
                    Commit(current_date, available_doctors, selected_doctors)

(***************************************************************************)
(* _balance_schedule.  avg_oncalls is sum / len, a float; a count is       *)
(* compared with avg_oncalls + 1 and avg_oncalls - 1, here multiplied      *)
(* through by len(self.doctors).  One step of the model runs the two       *)
(* nested for loops up to and including the next swap, or to the end of    *)
(* the pass: the slots passed over leave the state as it is.               *)
(***************************************************************************)
Sum(f) ==
    LET RECURSIVE Upto(_)
        Upto(k) == IF k = 0 THEN 0 ELSE f[k] + Upto(k - 1)
    IN  Upto(Len(f))

Overworked(count) == count * Len(doctors) > Sum(oncall_counts) + Len(doctors)

Underworked(count) == count * Len(doctors) < Sum(oncall_counts) - Len(doctors)

\* mutant: the replacements are looked for in self.doctors, available or not
underworked_doctors_of_roster(date) ==
    {d \in Roster : Underworked(oncall_counts[d])}

underworked_doctors(date) ==
    {d \in _get_available_doctors(date) : Underworked(oncall_counts[d])}

\* mutant: of the doctors of the lowest count the last in roster order is taken
MinByCountLast(S) ==
    CHOOSE d \in S : \A e \in S : oncall_counts[d] < oncall_counts[e]
                                   \/ (oncall_counts[d] = oncall_counts[e] /\ d >= e)

\* min(underworked_doctors, key=...): the first of the lowest count, in roster order
MinByCount(S) ==
    CHOOSE d \in S : \A e \in S : oncall_counts[d] < oncall_counts[e]
                                   \/ (oncall_counts[d] = oncall_counts[e] /\ d <= e)

\* the slots of self.schedule the running pass has not visited yet
SlotsAhead ==
    {slot \in UNION {{<<date, i>> : i \in DOMAIN schedule[date]} : date \in DOMAIN schedule} :
        \/ bal_date = None
        \/ slot[1] > bal_date
        \/ (slot[1] = bal_date /\ slot[2] > bal_i)}

SwapSlots ==
    {slot \in SlotsAhead :
        /\ Overworked(oncall_counts[schedule[slot[1]][slot[2]]])
        /\ underworked_doctors(slot[1]) # {}}

FirstSlot(S) ==
    CHOOSE slot \in S : \A other \in S :
        slot[1] < other[1] \/ (slot[1] = other[1] /\ slot[2] <= other[2])

\* the day loop has ended: _balance_schedule starts its first pass
BalanceStart ==
    /\ pc = "loop"
    /\ ~LoopRuns(current_date)
    /\ passes' = 0
    /\ bal_date' = None
    /\ bal_i' = 0
    /\ IF Len(doctors) = 0
       THEN pc' = "ZeroDivisionError" /\ oncall_counts' = <<>>
       ELSE pc' = "balance" /\ oncall_counts' = [d \in Roster |-> Len(shifts[d])]
    /\ UNCHANGED <<params, shifts, last_shift, schedule, current_date, error_date,
                   available_at, swaps, stats>>

BalanceSwap ==
    /\ pc = "balance"
    /\ SwapSlots # {}
    /\ LET slot == FirstSlot(SwapSlots)
           date == slot[1]
           i == slot[2]
           doctor == schedule[date][i]
           new_doctor == MinByCount(underworked_doctors(date))
       IN  /\ schedule' = [schedule EXCEPT ![date][i] = new_doctor]
           /\ bal_date' = date
           /\ bal_i' = i
           /\ swaps' = Append(swaps, [date |-> date, i |-> i, doctor |-> doctor,
                                      new_doctor |-> new_doctor])
           /\ IF date \in Range(shifts[doctor])
              THEN /\ shifts' = [d \in Roster |->
                                   IF d = new_doctor
                                   THEN Append(IF d = doctor THEN RemoveFirst(shifts[d], date)
                                               ELSE shifts[d], date)
                                   ELSE IF d = doctor THEN RemoveFirst(shifts[d], date)
                                   ELSE shifts[d]]
                   /\ last_shift' = [last_shift EXCEPT ![new_doctor] = date]
                   /\ oncall_counts' = [d \in Roster |->
                                          oncall_counts[d]
                                          - (IF d = doctor THEN 1 ELSE 0)
                                          + (IF d = new_doctor THEN 1 ELSE 0)]
                   /\ UNCHANGED <<pc, error_date>>
              ELSE /\ pc' = "ValueError"
                   /\ error_date' = None
                   /\ UNCHANGED <<shifts, last_shift, oncall_counts>>
    /\ UNCHANGED <<params, current_date, available_at, passes, stats>>

\* no slot ahead is swapped: the pass ends, the next one starts or the call returns True
BalancePassEnd ==
    /\ pc = "balance"
    /\ SwapSlots = {}
    /\ passes' = passes + 1
    /\ bal_date' = None
    /\ bal_i' = 0
    /\ IF passes + 1 < BalancePasses
       THEN pc' = "balance" /\ oncall_counts' = [d \in Roster |-> Len(shifts[d])]
       ELSE pc' = "returned" /\ UNCHANGED oncall_counts
    /\ UNCHANGED <<params, shifts, last_shift, schedule, current_date, error_date,
                   available_at, swaps, stats>>

(***************************************************************************)
(* The Generate button again: a new Schedule over the same Doctor objects. *)
(***************************************************************************)
NewSchedule ==
    /\ pc \in {"returned", "ValueError", "ZeroDivisionError"}
    /\ schedule' = <<>>
    /\ pc' = "constructed"
    /\ error_date' = None
    /\ available_at' = <<>>
    /\ passes' = 0
    /\ oncall_counts' = <<>>
    /\ bal_date' = None
    /\ bal_i' = 0
    /\ swaps' = <<>>
    /\ stats' = <<>>
    /\ current_date' = start_date
    /\ UNCHANGED <<params, shifts, last_shift>>

(***************************************************************************)
(* get_doctor_statistics, called on the Schedule whose generate_schedule   *)
(* has returned True (statistics_tab reads st.session_state.schedule,      *)
(* which is stored only then).  A doctor's name is the key of the mapping; *)
(* here it is the doctor's position in the roster.                         *)
(***************************************************************************)
\* mutant: the weekend on-calls are counted on Saturday and Sunday
doctor_statistics_calendar_weekend(p) ==
    LET OnWeekend(date) == (date % 7) \in {5, 6}
        weekend_oncalls == Count(shifts[p], OnWeekend)
        weekday_oncalls == Len(shifts[p]) - weekend_oncalls
    IN  [total_oncalls |-> Len(shifts[p]),
         weekend_oncalls |-> weekend_oncalls,
         weekday_oncalls |-> weekday_oncalls,
         team |-> doctors[p].team,
         vacation_days |-> Cardinality(doctors[p].vacation_days),
         mobile_team_days |-> Cardinality(doctors[p].mobile_team_days)]

\* the dict built for one doctor
doctor_statistics(p) ==
    LET weekend_oncalls == Count(shifts[p], IsWeekend)
        weekday_oncalls == Len(shifts[p]) - weekend_oncalls
    IN  [total_oncalls |-> Len(shifts[p]),
         weekend_oncalls |-> weekend_oncalls,
         weekday_oncalls |-> weekday_oncalls,
         team |-> doctors[p].team,
         vacation_days |-> Cardinality(doctors[p].vacation_days),
         mobile_team_days |-> Cardinality(doctors[p].mobile_team_days)]

\* mutant: the weekend dates are taken out of doctor.shifts while they are counted
get_doctor_statistics_consuming ==
    /\ pc = "returned"
    /\ Len(stats) < MaxReads
    /\ stats' = Append(stats, [p \in Roster |-> doctor_statistics(p)])
    /\ shifts' = [p \in Roster |-> SelectSeq(shifts[p], LAMBDA date : ~IsWeekend(date))]
    /\ UNCHANGED <<params, last_shift, schedule, current_date, pc, error_date,
                   available_at, passes, oncall_counts, bal_date, bal_i, swaps>>

get_doctor_statistics ==
    /\ pc = "returned"
    /\ Len(stats) < MaxReads
    /\ stats' = Append(stats, [p \in Roster |-> doctor_statistics(p)])
    /\ UNCHANGED <<params, shifts, last_shift, schedule, current_date, pc, error_date,
                   available_at, passes, oncall_counts, bal_date, bal_i, swaps>>

Next ==
    \/ Reset
    \/ _assign_weekend_oncall
    \/ _assign_weekday_oncall
    \/ BalanceStart
    \/ BalanceSwap
    \/ BalancePassEnd
    \/ get_doctor_statistics
    \/ NewSchedule

Spec == Init /\ [][Next]_vars

SpecLong == InitLong /\ [][Next]_vars

SpecInvalid == InitInvalid /\ [][Next]_vars

(***************************************************************************)
(* Properties of the schedule generate_schedule returns.                   *)
(***************************************************************************)
HistoryDates(p) == Range(shifts[p])

Swapped == swaps # <<>>

\* C1: once generate_schedule has returned True, the schedule has an entry for
\* every date of [start_date, end_date] and for no other date, of length 2 on
\* a Friday or Saturday and of length 1 on any other day.
C1_EveryDateHasItsEntry ==
    pc = "returned" =>
        /\ DOMAIN schedule = start_date..end_date
        /\ \A date \in DOMAIN schedule :
              Len(schedule[date]) = IF (date % 7) \in {4, 5} THEN 2 ELSE 1

\* a returned schedule with a weekday, a weekend day and a swap by the balancer
C1_Witness ==
    /\ pc = "returned"
    /\ Swapped
    /\ \E date \in DOMAIN schedule : (date % 7) \in {4, 5}
    /\ \E date \in DOMAIN schedule : (date % 7) \notin {4, 5}

\* C2: in every state, nobody holds a slot on a date that is among their
\* vacation days or their mobile rotation days.
C2_NobodyOnCallWhileAway ==
    \A date \in DOMAIN schedule : \A i \in DOMAIN schedule[date] :
        /\ date \notin doctors[schedule[date][i]].vacation_days
        /\ date \notin doctors[schedule[date][i]].mobile_team_days

\* the balancer has swapped on a roster where doctors are on the mobile
\* rotation on a date of the schedule
C2_Witness ==
    /\ Swapped
    /\ \E p \in Roster : \E date \in DOMAIN schedule : date \in doctors[p].mobile_team_days

\* C3: once generate_schedule has returned True, any two neighbouring dates of
\* a doctor's history are more than min_days_between_oncalls days apart.
C3_GapBetweenOnCalls ==
    pc = "returned" =>
        \A p \in Roster : \A d1, d2 \in HistoryDates(p) :
            (d1 < d2 /\ ~(\E d \in HistoryDates(p) : d1 < d /\ d < d2))
                => d2 - d1 > min_days_between_oncalls

\* a returned schedule, swapped by the balancer, in which a doctor is back on
\* call on the first day the gap allows
C3_Witness ==
    /\ pc = "returned"
    /\ Swapped
    /\ \E p \in Roster : \E d1, d2 \in HistoryDates(p) :
          d2 - d1 = min_days_between_oncalls + 1

\* C4: once generate_schedule has returned True, no doctor has more than
\* max_oncalls_per_week history dates within any 7 consecutive days.
C4_WeeklyCap ==
    pc = "returned" =>
        \A p \in Roster : \A first \in (start_date - 6)..end_date :
            Cardinality({k \in DOMAIN shifts[p] :
                            first <= shifts[p][k] /\ shifts[p][k] < first + 7})
                <= max_oncalls_per_week

\* a returned schedule in which a doctor has used up a cap of two or more, and
\* was free of absence on a later day within the same 7 days
C4_Witness ==
    /\ pc = "returned"
    /\ max_oncalls_per_week >= 2
    /\ \E p \in Roster :
          /\ Len(shifts[p]) = max_oncalls_per_week
          /\ \E date \in DOMAIN schedule :
                /\ date - last_shift[p] > min_days_between_oncalls
                /\ date \notin doctors[p].vacation_days \cup doctors[p].mobile_team_days
                /\ \A d \in HistoryDates(p) : date - d < 7

\* C5: once generate_schedule has returned True, any two different Friday or
\* Saturday dates of a doctor's history are at least 14 days apart.
C5_WeekendCooldown ==
    pc = "returned" =>
        \A p \in Roster : \A d1, d2 \in HistoryDates(p) :
            (d1 < d2 /\ (d1 % 7) \in {4, 5} /\ (d2 % 7) \in {4, 5}) => d2 - d1 >= 14

\* C6: once generate_schedule has returned True, a weekend entry whose
\* candidates at assignment time came from two teams or more holds two
\* doctors of different teams.
C6_WeekendTeamsDiffer ==
    pc = "returned" =>
        \A date \in DOMAIN schedule :
            ((date % 7) \in {4, 5}
             /\ Cardinality({doctors[p].team : p \in available_at[date]}) >= 2)
                => doctors[schedule[date][1]].team # doctors[schedule[date][2]].team

\* the candidates of the day the loop stands at are too few
TooFewCandidates ==
    IF (current_date % 7) \in {4, 5}
    THEN Cardinality(WeekendPool(current_date)) < 2
    ELSE _get_available_doctors(current_date) = {}

\* C7: when the day loop reaches a day with too few candidates (fewer than 2
\* on a Friday or Saturday, none on another day), the next step is the
\* ValueError that names that date and commits nothing; after it there is no
\* entry for that date or a later one, the balancer has not run, and the call
\* does not return True.
C7_AllocationError ==
    /\ [][(pc = "loop" /\ current_date <= end_date /\ TooFewCandidates)
            => /\ pc' = "ValueError"
               /\ error_date' = current_date
               /\ schedule' = schedule
               /\ shifts' = shifts
               /\ last_shift' = last_shift]_vars
    /\ [](pc = "ValueError" =>
            /\ \A date \in DOMAIN schedule : date < error_date
            /\ passes = 0
            /\ oncall_counts = <<>>
            /\ ~Swapped)
    /\ [][pc = "ValueError" => pc' # "returned"]_vars

\* the loop has failed on a weekend day after it had committed earlier days
C7_Witness ==
    /\ pc = "ValueError"
    /\ (error_date % 7) \in {4, 5}
    /\ schedule # <<>>
    /\ Cardinality(WeekendPool(error_date)) = 1

\* C8: a request with the end before the start, or with a cap or a gap that is
\* not positive, never returns True and never gets a schedule entry.
C8_InvalidRequestRejected ==
    (end_date < start_date \/ max_oncalls_per_week <= 0 \/ min_days_between_oncalls <= 0)
        => (pc # "returned" /\ schedule = <<>>)

\* C9: during and after a run, last_shift is the latest date of the history,
\* and None exactly when the history is empty.
C9_LastShiftIsLatest ==
    pc \in {"loop", "balance", "returned"} =>
        \A p \in Roster :
            last_shift[p] = IF shifts[p] = <<>> THEN None ELSE Max(HistoryDates(p))

\* C10: in every state, no history holds a date twice and no weekend entry
\* holds the same doctor in both slots.
C10_NoDuplicates ==
    /\ \A p \in Roster : \A j, k \in DOMAIN shifts[p] :
          j # k => shifts[p][j] # shifts[p][k]
    /\ \A date \in DOMAIN schedule :
          Len(schedule[date]) = 2 => schedule[date][1] # schedule[date][2]

\* the balancer has swapped a slot of a weekend entry, whose candidates had
\* all been of one team
C10_Witness ==
    \E k \in DOMAIN swaps :
        /\ (swaps[k].date % 7) \in {4, 5}
        /\ Cardinality({doctors[p].team : p \in available_at[swaps[k].date]}) = 1

\* the doctors who are neither on vacation nor on the mobile rotation on date
NotAway(date) ==
    {p \in Roster : date \notin doctors[p].vacation_days \cup doctors[p].mobile_team_days}

\* C11: the first step of every call of generate_schedule empties every
\* doctor's history and sets every last_shift to None, whatever an earlier call
\* on the same Doctor objects left in them; so, as long as no day has been
\* processed, the candidates of the first day are the doctors who are not away
\* on it.
C11_RunStartsFromEmptyHistories ==
    /\ [][pc = "constructed"
            => /\ pc' = "loop"
               /\ current_date' = start_date
               /\ schedule' = <<>>
               /\ \A p \in Roster : shifts'[p] = <<>> /\ last_shift'[p] = None]_vars
    /\ []((pc = "loop" /\ current_date = start_date)
            => /\ \A p \in Roster : shifts[p] = <<>> /\ last_shift[p] = None
               /\ {p \in Roster : _is_available(p, start_date)} = NotAway(start_date)
               /\ {p \in Roster : _is_available(p, start_date)
                                   /\ _is_weekend_eligible(p, start_date)}
                     = NotAway(start_date))

\* generate_schedule is about to be called again on doctors who still carry
\* the history of an earlier call, one of them a last_shift that would keep
\* them from the first day
C11_Witness ==
    /\ pc = "constructed"
    /\ \E p \in Roster : shifts[p] # <<>>
    /\ \E p \in NotAway(start_date) :
          last_shift[p] # None /\ start_date - last_shift[p] <= min_days_between_oncalls

\* the number of slots of the schedule that p holds on the dates that satisfy Test
SlotsOf(p, Test(_)) ==
    Cardinality({slot \in UNION {{<<date, i>> : i \in DOMAIN schedule[date]} :
                                    date \in DOMAIN schedule} :
                    schedule[slot[1]][slot[2]] = p /\ Test(slot[1])})

\* C13: every mapping get_doctor_statistics returns has an entry for every
\* doctor of the roster; a doctor's total is the number of slots the doctor
\* holds in the schedule (0 for a doctor who holds none), the weekend count is
\* the number of those slots on Fridays and Saturdays, and the weekday count
\* is the total less the weekend count.
C13_StatisticsMatchSchedule ==
    \A k \in DOMAIN stats :
        /\ DOMAIN stats[k] = Roster
        /\ \A p \in Roster :
              /\ stats[k][p].total_oncalls = SlotsOf(p, LAMBDA date : TRUE)
              /\ stats[k][p].weekend_oncalls = SlotsOf(p, LAMBDA date : (date % 7) \in {4, 5})
              /\ stats[k][p].weekday_oncalls
                    = stats[k][p].total_oncalls - stats[k][p].weekend_oncalls

\* statistics of a schedule with a doctor who has no slot and a doctor who has
\* a weekend on-call and a weekday on-call
C13_Witness ==
    /\ stats # <<>>
    /\ \E p \in Roster : stats[1][p].total_oncalls = 0
    /\ \E p \in Roster : stats[1][p].weekend_oncalls > 0 /\ stats[1][p].weekday_oncalls > 0

\* C14: a call of get_doctor_statistics leaves the schedule and every doctor's
\* history, last_shift, vacation days and mobile rotation days as they were,
\* and the mappings returned for one schedule are all the same.
C14_StatisticsReadOnly ==
    /\ [][Len(stats') > Len(stats)
            => UNCHANGED <<schedule, shifts, last_shift, doctors>>]_vars
    /\ [](\A j, k \in DOMAIN stats : stats[j] = stats[k])

\* get_doctor_statistics has been called twice on a schedule with weekend
\* on-calls
C14_Witness ==
    /\ Len(stats) = 2
    /\ \E p \in Roster : stats[2][p].weekend_oncalls > 0 /\ stats[2][p].weekday_oncalls > 0

\* C15: while generate_schedule runs (the day loop and the passes of the
\* balancer), a doctor is available on a date of the range exactly when the
\* date is among neither the vacation days nor the mobile rotation days and
\* the history is empty or the date is more than min_days_between_oncalls
\* after the latest history date and fewer than max_oncalls_per_week history
\* dates lie in the 7 days that end on the date.
C15_AvailabilityFromHistory ==
    pc \in {"loop", "balance"} =>
        \A p \in Roster : \A date \in start_date..end_date :
            _is_available(p, date)
                <=> /\ date \notin doctors[p].vacation_days
                    /\ date \notin doctors[p].mobile_team_days
                    /\ \/ shifts[p] = <<>>
                       \/ /\ date - Max(HistoryDates(p)) > min_days_between_oncalls
                          /\ Cardinality({k \in DOMAIN shifts[p] :
                                             0 <= date - shifts[p][k] /\ date - shifts[p][k] < 7})
                                < max_oncalls_per_week

\* the score of the claim, doubled: -10 for each on-call of the history, -5
\* for each on-call of the history on a day of the same kind as date, 0.5 for
\* each day since the latest one
DoubledScore(p, date) ==
    LET SameKind(d) == ((d % 7) \in {4, 5}) <=> ((date % 7) \in {4, 5})
    IN  (0 - 20) * Len(shifts[p])
        - 10 * Cardinality({k \in DOMAIN shifts[p] : SameKind(shifts[p][k])})
        + (date - Max(HistoryDates(p)))

\* the score of a is at least that of b; never assigned counts as infinite
ScoreAtLeast(a, b, date) ==
    \/ shifts[a] = <<>>
    \/ shifts[b] # <<>> /\ DoubledScore(a, date) >= DoubledScore(b, date)

\* C16: on every day the loop commits, the first doctor of the entry (the
\* weekday assignee, the first of the weekend pair) has, on the histories as
\* they stand before the commit, a score at least that of every candidate of
\* the day: the jitter decides only among equal scores.
C16_FirstHasTopScore ==
    [][(pc = "loop" /\ current_date' = current_date + 1)
        => \A other \in available_at'[current_date] :
              ScoreAtLeast(schedule'[current_date][1], other, current_date)]_vars

\* a committed day all of whose two or more candidates had been on call
\* before, where the first doctor of the entry is not the first candidate in
\* roster order
C16_Witness ==
    \E date \in DOMAIN schedule :
        /\ Cardinality(available_at[date]) >= 2
        /\ \A p \in available_at[date] : \E d \in HistoryDates(p) : d < date
        /\ \E p \in available_at[date] : p < schedule[date][1]
        /\ ~Swapped

\* C17: on every Friday or Saturday the loop commits, the entry holds two
\* different doctors; when a candidate other than the first doctor is of
\* another team, the second doctor is of another team and no such candidate
\* has a higher score; when none is, no candidate other than the first doctor
\* has a higher score than the second (scores as they stand before the commit).
C17_SecondPrefersOtherTeam ==
    [][(pc = "loop" /\ current_date' = current_date + 1 /\ (current_date % 7) \in {4, 5})
        => LET entry == schedule'[current_date]
               rest == available_at'[current_date] \ {entry[1]}
               others == {p \in rest : doctors[p].team # doctors[entry[1]].team}
           IN  /\ Len(entry) = 2
               /\ entry[1] # entry[2]
               /\ entry[2] \in rest
               /\ IF others # {}
                  THEN /\ entry[2] \in others
                       /\ \A p \in others : ScoreAtLeast(entry[2], p, current_date)
                  ELSE \A p \in rest : ScoreAtLeast(entry[2], p, current_date)]_vars

\* the first day of a run is a weekend day whose second doctor comes after a
\* candidate of the first doctor's team that is passed over
C17_Witness ==
    /\ pc = "loop"
    /\ start_date \in DOMAIN schedule
    /\ (start_date % 7) \in {4, 5}
    /\ doctors[schedule[start_date][2]].team # doctors[schedule[start_date][1]].team
    /\ \E p \in available_at[start_date] \ {schedule[start_date][1]} :
          doctors[p].team = doctors[schedule[start_date][1]].team /\ p < schedule[start_date][2]

\* the on-calls of all histories together
TotalOnCalls == Sum([p \in Roster |-> Len(shifts[p])])

\* the doctors who could take over a slot on date: available on it, with a
\* history shorter than the mean less 1
Replacements(date) ==
    {q \in Roster : /\ _is_available(q, date)
                     /\ Len(shifts[q]) * Len(doctors) < TotalOnCalls - Len(doctors)}

\* C18: a swap of the balancer changes one slot of the schedule; the doctor it
\* takes out held the slot and has a history longer than the mean plus 1, the
\* doctor it puts in is, on the state before the swap, available on the date
\* with a history shorter than the mean less 1, and of all such doctors the one
\* of the shortest history, the first in roster order among equals.  A slot
\* for which there is no such doctor is left as it is.
C18_SwapRule ==
    /\ [][Len(swaps') > Len(swaps)
            => LET swap == swaps'[Len(swaps')]
               IN  /\ schedule[swap.date][swap.i] = swap.doctor
                   /\ schedule' = [schedule EXCEPT ![swap.date][swap.i] = swap.new_doctor]
                   /\ Len(shifts[swap.doctor]) * Len(doctors) > TotalOnCalls + Len(doctors)
                   /\ swap.new_doctor \in Replacements(swap.date)
                   /\ \A q \in Replacements(swap.date) :
                         \/ Len(shifts[swap.new_doctor]) < Len(shifts[q])
                         \/ /\ Len(shifts[swap.new_doctor]) = Len(shifts[q])
                            /\ swap.new_doctor <= q]_vars
    /\ [][pc = "balance"
            => \A date \in DOMAIN schedule : \A i \in DOMAIN schedule[date] :
                  Replacements(date) = {} => schedule'[date][i] = schedule[date][i]]_vars

\* a swap for which two doctors or more could have taken over the slot
C18_Witness ==
    \E k \in DOMAIN swaps :
        \E q \in Roster \ {swaps[k].new_doctor, swaps[k].doctor} :
            /\ Len(swaps) = k
            /\ pc = "balance"
            /\ Len(shifts[q]) = 0
            /\ swaps[k].date \notin doctors[q].vacation_days \cup doctors[q].mobile_team_days
            /\ Len(shifts[swaps[k].new_doctor]) = 1

\* C19: _balance_schedule, once the day loop has handed over to it, raises
\* nothing (no ZeroDivisionError, no ValueError of its own) and makes exactly
\* 3 passes before generate_schedule returns True.
C19_BalancerNeverFails ==
    /\ pc # "ZeroDivisionError"
    /\ pc = "ValueError" => error_date # None
    /\ pc = "balance" => passes < 3
    /\ pc = "returned" => passes = 3

\* C20: the day loop takes the dates of the range one by one in increasing
\* order: while it runs, the schedule holds exactly the dates before
\* current_date.  The step for a date adds the entry for that date and
\* changes no other entry; it appends the date to the history of each doctor
\* of the entry and sets their last_shift to it; it leaves every other
\* doctor's history and last_shift, and all vacation and mobile rotation
\* days, as they were.
C20_DayStepFrame ==
    /\ [](pc = "loop" =>
            /\ DOMAIN schedule = start_date..(current_date - 1)
            /\ current_date <= end_date + 1)
    /\ [][(pc = "loop" /\ pc' = "loop" /\ current_date' # current_date)
            => /\ current_date' = current_date + 1
               /\ DOMAIN schedule' = DOMAIN schedule \cup {current_date}
               /\ \A date \in DOMAIN schedule : schedule'[date] = schedule[date]
               /\ \A p \in Roster :
                     IF \E i \in DOMAIN schedule'[current_date] : schedule'[current_date][i] = p
                     THEN /\ shifts'[p] = Append(shifts[p], current_date)
                          /\ last_shift'[p] = current_date
                     ELSE /\ shifts'[p] = shifts[p]
                          /\ last_shift'[p] = last_shift[p]
               /\ doctors' = doctors]_vars

\* the loop has committed a weekday and a weekend day and stands at a further
\* date of the range, with a candidate of the last day left without on-call
C20_Witness ==
    /\ pc = "loop"
    /\ current_date <= end_date
    /\ \E date \in DOMAIN schedule : Len(schedule[date]) = 2
    /\ \E date \in DOMAIN schedule : Len(schedule[date]) = 1
    /\ \E p \in available_at[current_date - 1] : shifts[p] = <<>>

\* the number of times date stands in the history of p
TimesInHistory(p, date) == Cardinality({k \in DOMAIN shifts[p] : shifts[p][k] = date})

\* the number of slots of the entry for date that p holds
TimesInEntry(p, date) ==
    IF date \in DOMAIN schedule
    THEN Cardinality({i \in DOMAIN schedule[date] : schedule[date][i] = p})
    ELSE 0

\* C21: from the reset of a run on (after every commit of the day loop and
\* after every swap of the balancer), a doctor holds as many slots of the
\* entry for a date as the date stands in the doctor's history, for every
\* doctor and every date; so the balancer always finds the date it removes
\* from the history of the doctor it takes out, and raises nothing there.
C21_ScheduleAndHistoriesAgree ==
    /\ pc # "constructed" =>
          \A p \in Roster :
              \A date \in DOMAIN schedule \cup HistoryDates(p) :
                  TimesInEntry(p, date) = TimesInHistory(p, date)
    /\ pc = "ValueError" => error_date # None

\* the balancer has just taken a weekend date from a doctor who keeps other
\* dates and given it to a doctor who had none
C21_Witness ==
    /\ pc = "balance"
    /\ Swapped
    /\ LET swap == swaps[Len(swaps)]
       IN  /\ (swap.date % 7) \in {4, 5}
           /\ shifts[swap.doctor] # <<>>
           /\ shifts[swap.new_doctor] = <<swap.date>>

\* C22: with min_days_between_oncalls >= 0, from the reset of a run on every
\* doctor's last_shift is no earlier than any date of the doctor's history,
\* and every swap of the balancer gives the new doctor a date later than the
\* doctor's last_shift and than every date of the doctor's history as they
\* stand before the swap.
C22_LastShiftBoundsHistory ==
    /\ []((min_days_between_oncalls >= 0 /\ pc # "constructed")
            => \A p \in Roster : \A date \in HistoryDates(p) :
                  last_shift[p] # None /\ last_shift[p] >= date)
    /\ [][(min_days_between_oncalls >= 0 /\ Len(swaps') > Len(swaps))
            => LET swap == swaps'[Len(swaps')]
               IN  /\ last_shift[swap.new_doctor] # None
                         => swap.date > last_shift[swap.new_doctor]
                   /\ \A date \in HistoryDates(swap.new_doctor) : swap.date > date]_vars

\* the balancer has just given a date to a doctor who had been on call before
\* it, while a doctor whose last_shift is that date or a later one is not
\* available on it
C22_Witness ==
    /\ pc = "balance"
    /\ Swapped
    /\ LET swap == swaps[Len(swaps)]
       IN  /\ Len(shifts[swap.new_doctor]) >= 2
           /\ \E q \in Roster \ {swap.new_doctor} :
                 /\ last_shift[q] # None
                 /\ last_shift[q] >= swap.date
                 /\ q \notin _get_available_doctors(swap.date)

====
